---------------------------- MODULE Spec2Model ----------------------------
(***************************************************************************)
(* A model of the play.core program runner (src/src/index.ts) and of its   *)
(* buffer helpers (src/src/modules/buffer.ts).                             *)
(*                                                                         *)
(* JavaScript values.  A buffer slot holds any JS value.  An object is a   *)
(* function from its own keys to field values; a primitive v is the        *)
(* one-key function [prim |-> v].  Field values and primitives are         *)
(* strings: a character, a style word, or one of the two markers below for *)
(* the JS values undefined and null.                                       *)
(***************************************************************************)
EXTENDS Integers, Sequences, FiniteSets, TLC

\* ------------------------------------------------------------------ bounds
\* The host clock (ms) is followed up to MaxTime; the event queue up to MaxQueue;
\* an unthrottled loop for MaxFrames frames; the buffer helpers called by
\* themselves for MaxOps calls.
MaxTime == 6
MaxQueue == 3
MaxFrames == 3
MaxOps == 2

\* ------------------------------------------------------------- JS values
Undefined == "undefined"
Null == "null"

\* Numbers outside the integers: 1000 / undefined, 1000 / 0 and t - Infinity.
\* They are named by integers far below any number the program computes.
NaN == -1000001
PosInfinity == -1000002
NegInfinity == -1000003
\* `let cols, rows` before the first tick: not a number any grid size equals.
Unset == -1000004

Prim(v) == [prim |-> v]
IsObject(s) == "prim" \notin DOMAIN s
\* typeof s == "object" (null included)
TypeofObject(s) == IsObject(s) \/ s = Prim(Null)
EmptyObject == [k \in {} |-> Undefined]

\* The own enumerable properties a spread {...s} or Object.assign(_, s) copies:
\* those of an object, the index keys of a string (one character here), none
\* of undefined or null.
Spread(s) ==
  IF IsObject(s) THEN s
  ELSE IF s.prim \in {Undefined, Null} THEN EmptyObject
  ELSE [k \in {"0"} |-> s.prim]

\* {...a, ...b}, and the result of Object.assign(a, b)
Assign(a, b) ==
  [k \in (DOMAIN a) \cup (DOMAIN b) |-> IF k \in DOMAIN b THEN b[k] ELSE a[k]]

\* A check that lets a null char through.
CharUndefined(o) == "char" \notin DOMAIN o \/ o["char"] = Undefined

\* o.char === undefined || o.char === null (an absent key reads undefined)
CharMissing(o) == "char" \notin DOMAIN o \/ o["char"] \in {Undefined, Null}

Min2(a, b) == IF a <= b THEN a ELSE b
Max2(a, b) == IF a >= b THEN a ELSE b


\* ------------------------------------------------- modules/buffer.ts helpers
\* A buffer is [cells, ids, threw]: cells[i+1] is the JS slot i; ids tells which
\* slots hold one and the same object (equal non-zero ids; 0 for a primitive),
\* each shared object being named by the first slot that holds it; threw says
\* that a call on it raised a TypeError, which ends the calls that follow.
MinOf(S) == CHOOSE m \in S : \A n \in S : m <= n

Canon(ids) ==
  [i \in DOMAIN ids |->
     IF ids[i] = 0 THEN 0 ELSE MinOf({j \in DOMAIN ids : ids[j] = ids[i]})]

\* Identities that no slot of T holds yet: of the object a call passes in, and
\* of the object merge() creates for slot i.  The slots' own identities are
\* positive (Canon), these are negative, and they do not depend on the length
\* of T, which a call may change between two of its cells: one setRect stores
\* one and the same object in every cell of its rectangle.
ArgId(T) == 0 - 1
NewId(T, i) == 0 - (i + 2)

\* target[i] (undefined past the end of the array)
Slot(T, i) == IF i + 1 \in DOMAIN T.cells THEN T.cells[i + 1] ELSE Prim(Undefined)

\* target[i] = v, v being the object named id (0: a primitive)
Store(T, i, v, id) ==
  LET n == Max2(Len(T.cells), i + 1) IN
  [T EXCEPT
     !.cells = [k \in 1..n |-> IF k = i + 1 THEN v
                               ELSE IF k <= Len(T.cells) THEN T.cells[k]
                               ELSE Prim(Undefined)],
     !.ids = [k \in 1..n |-> IF k = i + 1 THEN id
                             ELSE IF k <= Len(T.ids) THEN T.ids[k] ELSE 0]]

\* A get whose column test is off by one.
getPastLastColumn(x, y, T, targetCols, targetRows) ==
  IF x < 0 \/ x > targetCols THEN EmptyObject
  ELSE IF y < 0 \/ y >= targetRows THEN EmptyObject
  ELSE Slot(T, x + y * targetCols)

get(x, y, T, targetCols, targetRows) ==
  IF x < 0 \/ x >= targetCols THEN EmptyObject
  ELSE IF y < 0 \/ y >= targetRows THEN EmptyObject
  ELSE Slot(T, x + y * targetCols)

set(val, x, y, T, targetCols, targetRows) ==
  IF T.threw THEN T
  ELSE IF x < 0 \/ x >= targetCols THEN T
  ELSE IF y < 0 \/ y >= targetRows THEN T
  ELSE Store(T, x + y * targetCols, val, IF IsObject(val) THEN ArgId(T) ELSE 0)

\* Object.assign(cell, val) changes the object cell in place: every slot that
\* holds it shows the change.  On a null slot it raises a TypeError.
merge(val, x, y, T, targetCols, targetRows) ==
  IF T.threw THEN T
  ELSE IF x < 0 \/ x >= targetCols THEN T
  ELSE IF y < 0 \/ y >= targetRows THEN T
  ELSE LET i == x + y * targetCols
           old == Slot(T, i)
       IN IF old = Prim(Null) THEN [T EXCEPT !.threw = TRUE]
          ELSE IF IsObject(old) /\ i + 1 \in DOMAIN T.cells
            THEN LET new == Assign(old, Spread(val)) IN
                 [T EXCEPT !.cells = [k \in DOMAIN T.cells |->
                                        IF T.ids[k] = T.ids[i + 1] THEN new
                                        ELSE T.cells[k]]]
            ELSE Store(T, i, Assign([char |-> old.prim], Spread(val)), NewId(T, i))

\* The cells of the rectangle in the order of the two nested loops.
RectCoords(x, y, w, h) ==
  IF w <= 0 \/ h <= 0 THEN << >>
  ELSE [k \in 1..(w * h) |-> <<x + ((k - 1) % w), y + ((k - 1) \div w)>>]

RECURSIVE SetEach(_, _, _, _, _)
SetEach(val, coords, T, targetCols, targetRows) ==
  IF coords = << >> THEN T
  ELSE SetEach(val, Tail(coords),
               set(val, Head(coords)[1], Head(coords)[2], T, targetCols, targetRows),
               targetCols, targetRows)

\* items: a sequence of [val, x, y]
RECURSIVE MergeEach(_, _, _, _)
MergeEach(items, T, targetCols, targetRows) ==
  IF items = << >> THEN T
  ELSE MergeEach(Tail(items),
                 merge(Head(items).val, Head(items).x, Head(items).y, T,
                       targetCols, targetRows),
                 targetCols, targetRows)

setRect(val, x, y, w, h, T, targetCols, targetRows) ==
  SetEach(val, RectCoords(x, y, w, h), T, targetCols, targetRows)

mergeRect(val, x, y, w, h, T, targetCols, targetRows) ==
  LET cs == RectCoords(x, y, w, h) IN
  MergeEach([k \in DOMAIN cs |-> [val |-> val, x |-> cs[k][1], y |-> cs[k][2]]],
            T, targetCols, targetRows)

\* text.split("\n"): text is a sequence of one-character strings
RECURSIVE SplitLines(_)
SplitLines(text) ==
  IF \A k \in DOMAIN text : text[k] # "\n" THEN <<text>>
  ELSE LET p == MinOf({k \in DOMAIN text : text[k] = "\n"}) IN
       <<SubSeq(text, 1, p - 1)>> \o SplitLines(SubSeq(text, p + 1, Len(text)))

RECURSIVE Flatten(_)
Flatten(ss) == IF ss = << >> THEN << >> ELSE Head(ss) \o Flatten(Tail(ss))

\* The merge() calls of mergeText, in order: character charNum of line lineNum
\* goes to (x + charNum, y + lineNum) as {char, ...mergeObj}.
TextItems(text, mergeObj, x, y) ==
  LET lines == SplitLines(text) IN
  Flatten([l \in DOMAIN lines |->
             [c \in DOMAIN lines[l] |->
                [val |-> Assign([char |-> lines[l][c]], mergeObj),
                 x |-> x + (c - 1), y |-> y + (l - 1)]]])

\* textObj is [text, style]: style holds the fields of the argument other than
\* text (none when a bare string is passed).
mergeText(textObj, x, y, T, targetCols, targetRows) ==
  MergeEach(TextItems(textObj.text, textObj.style, x, y), T, targetCols, targetRows)

MaxOf(S) == CHOOSE m \in S : \A n \in S : m >= n

\* The offset mergeText returns (lines 137-156): col is x + charNum of the
\* last character the loops came to (x when there was none), row the index
\* of the last line.
TextOffset(textObj, x, y) ==
  LET lines == SplitLines(textObj.text)
      full == {l \in DOMAIN lines : lines[l] # << >>}
  IN [col |-> IF full = {} THEN x ELSE x + Len(lines[MaxOf(full)]) - 1,
      row |-> Max2(y, (y + Len(lines)) - 1)]

\* Its wrapInfo (lines 149-151): for each line the slots at its first and last
\* column, read by get() once the line is merged; T is the target after the
\* call, whose slots of a merged line are the ones those reads returned.
TextWrapInfo(textObj, x, y, T, targetCols, targetRows) ==
  LET lines == SplitLines(textObj.text) IN
  [l \in DOMAIN lines |->
     [first |-> get(x, y + (l - 1), T, targetCols, targetRows),
      last |-> get((x + Len(lines[l])) - 1, y + (l - 1), T, targetCols, targetRows)]]

\* return {offset: {col, row}, wrapInfo}
TextReturn(textObj, x, y, T, targetCols, targetRows) ==
  [offset |-> TextOffset(textObj, x, y),
   wrapInfo |-> TextWrapInfo(textObj, x, y, T, targetCols, targetRows)]


\* ------------------------------------------------------------ JS arithmetic
\* Numbers are the integers (milliseconds, pixels, counts) with NaN,
\* +Infinity and -Infinity; every operand below is one of them.
\* a - b
JsSub(a, b) ==
  IF a = NaN \/ b = NaN THEN NaN
  ELSE IF a = PosInfinity THEN (IF b = PosInfinity THEN NaN ELSE PosInfinity)
  ELSE IF a = NegInfinity THEN (IF b = NegInfinity THEN NaN ELSE NegInfinity)
  ELSE IF b = PosInfinity THEN NegInfinity
  ELSE IF b = NegInfinity THEN PosInfinity
  ELSE a - b

\* a < b
JsLess(a, b) ==
  IF a = NaN \/ b = NaN THEN FALSE
  ELSE IF a = b THEN FALSE
  ELSE IF a = NegInfinity \/ b = PosInfinity THEN TRUE
  ELSE IF a = PosInfinity \/ b = NegInfinity THEN FALSE
  ELSE a < b

\* a % b: the sign follows the dividend, whatever the sign of the divisor
JsMod(a, b) ==
  IF a = NaN \/ b = NaN \/ a = PosInfinity \/ a = NegInfinity \/ b = 0 THEN NaN
  ELSE IF b = PosInfinity \/ b = NegInfinity THEN a
  ELSE LET m == IF b < 0 THEN 0 - b ELSE b
       IN IF a >= 0 THEN a % m ELSE 0 - ((0 - a) % m)

\* 1000 / fps, for the rates whose interval is a whole number of milliseconds
JsDiv1000(fps) ==
  IF fps = Unset THEN NaN
  ELSE IF fps = 0 THEN PosInfinity
  ELSE 1000 \div fps

\* Fractions <<n, d>> in lowest terms, d > 0: cell coordinates of the cursor.
RECURSIVE Gcd(_, _)
Gcd(a, b) == IF b = 0 THEN a ELSE Gcd(b, a % b)
Frac(n, d) ==
  LET g == Gcd(IF n < 0 THEN 0 - n ELSE n, d) IN <<n \div g, d \div g>>
FracMin(a, b) == IF a[1] * b[2] <= b[1] * a[2] THEN a ELSE b


\* ---------------------------------------------------------------- the runner
VARIABLES
  settings,    \* the caller's settings object
  program,     \* the program: the functions it defines, and what they may do
  host,        \* the page: element sizes, pointer positions, frame timestamps
  pc,          \* where the runner is: "start", "failed" (threw), "ready" (returned),
               \* "idle" (between signals), a step of loop, or "crashed"
  listeners,   \* the event types the element has a listener for
  state,       \* {time, frame, cycle, fps}
  stored,      \* the record under LOCAL_STORAGE_KEY_STATE
  eventQueue,
  pointer,
  buffer,      \* [cells, ids, threw]
  metrics,
  rect,        \* the element's bounding rectangle <<width, height>>
  interval,
  timeOffset,
  timeSample,
  cols, rows,  \* loop's record of the grid size
  now,         \* the timestamp of the last signal
  raf,         \* animation-frame requests outstanding
  context,     \* the snapshot of the tick in progress
  cursor,
  visited,     \* how many cells the main pass has done
  calls,       \* the calls the runner made so far in this tick (or at boot)
  afterPre,    \* the cells as pre left them, during the main pass
  outs,        \* what main returned so far in this pass
  tickQueue,   \* the event queue as the tick found it
  booted,      \* how many times program.boot was invoked
  lastCursor,  \* the x, y and pressed of the cursor of the last accepted tick
  gaps,        \* how the signals came so far: "none" yet, "steady" (never
               \* more than an interval after the one before, or after 0),
               \* "late" (steady but for the first), "broken"
  helper       \* the last buffer helper called by itself, and what it returned

vars == <<settings, program, host, pc, listeners, state, stored, eventQueue,
          pointer, buffer, metrics, rect, interval, timeOffset, timeSample,
          cols, rows, now, raf, context, cursor, visited, calls, afterPre, outs,
          tickQueue, booted, lastCursor, gaps, helper>>

EventTypes == {"pointerMove", "pointerDown", "pointerUp"}
PhaseNames == {"boot", "pre", "main", "post"}
DomEvents == {"pointermove", "pointerdown", "pointerup",
              "touchmove", "touchstart", "touchend"}

Defines(name) == name \in program.defined

\* index.ts defaultSettings.fps, and the fallback of state.fps
DefaultFps == 30

NoRecord == [has |-> FALSE, time |-> 0, frame |-> 0, cycle |-> 0, fps |-> 0]

\* storage.restore(key, state): Object.assign(state, <the stored record>)
StorageRestore(rec, st) ==
  IF rec.has
    THEN [time |-> rec.time, frame |-> rec.frame, cycle |-> rec.cycle, fps |-> rec.fps]
    ELSE st

\* storage.store(key, state)
StorageStore(st) ==
  [has |-> TRUE, time |-> st.time, frame |-> st.frame, cycle |-> st.cycle,
   fps |-> st.fps]

Truthy(v) == v \notin {Undefined, Null}

\* const mergedSettings = {...defaultSettings, ...settings}: its element is
\* the caller's when the caller's settings have the key, else the default null.
\* settings.element is Undefined (no key, or undefined), Null, or an element.
MergedElement(s) == IF s.hasElementKey THEN s.element ELSE Null

\* A check against null only, which lets an undefined element through.
NoElementNullOnly(s) == MergedElement(s) = Null

\* if (!mergedSettings.element || !settings.element) throw ...
NoElement(s) == ~Truthy(MergedElement(s)) \/ ~Truthy(s.element)

\* const state = {time: 0, frame: 0, cycle: 0, fps: settings.fps || 30}
InitialState(s) ==
  [time |-> 0, frame |-> 0, cycle |-> 0,
   fps |-> IF s.fps = Unset \/ s.fps = 0 THEN DefaultFps ELSE s.fps]

\* if (settings.restoreState) { storage.restore(...); state.cycle++ }
RestoredState(s, rec) ==
  IF s.restoreState
    THEN LET r == StorageRestore(rec, InitialState(s)) IN [r EXCEPT !.cycle = @ + 1]
    ELSE InitialState(s)

InitialPointer ==
  [x |-> 0, y |-> 0, pressed |-> FALSE, px |-> 0, py |-> 0, ppressed |-> FALSE]

EMPTY_CELL == " "

DEFAULT_CELL_STYLE(s) ==
  [color |-> s.color, backgroundColor |-> s.backgroundColor,
   fontWeight |-> s.fontWeight]

EmptyBuffer == [cells |-> << >>, ids |-> << >>, threw |-> FALSE]
NoMetrics == [cellWidth |-> 0, lineHeight |-> 0]
NoArg == [none |-> TRUE]

\* The runner's locals as its body sets them up (lines 73-181), given the
\* settings; nothing of the program has run.
RunnerLocals(s, rec) ==
  /\ state = RestoredState(s, rec)
  /\ eventQueue = << >>
  /\ pointer = InitialPointer
  /\ buffer = EmptyBuffer
  /\ metrics = NoMetrics
  /\ timeSample = 0
  /\ interval = JsDiv1000(s.fps)
  /\ timeOffset = RestoredState(s, rec).time
  /\ cols = Unset
  /\ rows = Unset

\* What the model keeps beside the runner's own variables.
NoTick ==
  /\ context = NoArg
  /\ cursor = NoArg
  /\ visited = 0
  /\ calls = << >>
  /\ afterPre = << >>
  /\ outs = << >>
  /\ tickQueue = << >>
  /\ lastCursor = NoArg
  /\ gaps = "none"
  /\ helper = NoArg

\* Before runner() is called.
Before(s, p, h, rec) ==
  /\ settings = s
  /\ program = p
  /\ host = h
  /\ stored = rec
  /\ pc = "start"
  /\ listeners = {}
  /\ rect \in h.sizes
  /\ now = 0
  /\ raf = 0
  /\ booted = 0
  /\ RunnerLocals(s, NoRecord)
  /\ NoTick

\* runner(program, settings): throws on a missing element, else sets up its
\* state and the six listeners and returns.  boot() is defined (line 164) and
\* never called.
Runner ==
  /\ pc = "start"
  /\ IF NoElement(settings)
       THEN /\ pc' = "failed"
            /\ UNCHANGED <<listeners, state, interval, timeOffset>>
       ELSE /\ pc' = "ready"
            /\ listeners' = DomEvents
            /\ state' = RestoredState(settings, stored)
            /\ interval' = JsDiv1000(settings.fps)
            /\ timeOffset' = RestoredState(settings, stored).time
  /\ UNCHANGED <<settings, program, host, stored, eventQueue, pointer, buffer,
                 metrics, rect, timeSample, cols, rows, now, raf, context,
                 cursor, visited, calls, afterPre, outs, tickQueue,
                 booted, lastCursor, gaps, helper>>

\* DOM events reach a listener between two callbacks, never inside one.
Listening(type) ==
  /\ type \in listeners
  /\ pc \in {"ready", "idle", "crashed"}
  /\ Len(eventQueue) < host.maxQueue

InputFrame ==
  UNCHANGED <<settings, program, host, pc, listeners, state, stored, buffer,
              metrics, rect, interval, timeOffset, timeSample, cols, rows, now,
              raf, context, cursor, visited, calls, afterPre, outs, tickQueue,
              booted, lastCursor, gaps, helper>>

\* "pointermove": e.clientX - rect.left, e.clientY - rect.top
PointerMoveListener ==
  /\ Listening("pointermove")
  /\ \E x \in host.xs, y \in host.ys :
       pointer' = [pointer EXCEPT !.x = x, !.y = y]
  /\ eventQueue' = Append(eventQueue, "pointerMove")
  /\ InputFrame

\* A pointerdown listener that also writes the shadow the tick keeps.
PointerDownShadowed ==
  /\ Listening("pointerdown")
  /\ pointer' = [pointer EXCEPT !.pressed = TRUE, !.ppressed = TRUE]
  /\ eventQueue' = Append(eventQueue, "pointerDown")
  /\ InputFrame

\* "pointerdown"
PointerDownListener ==
  /\ Listening("pointerdown")
  /\ pointer' = [pointer EXCEPT !.pressed = TRUE]
  /\ eventQueue' = Append(eventQueue, "pointerDown")
  /\ InputFrame

PointerUpListener ==
  /\ Listening("pointerup")
  /\ pointer' = [pointer EXCEPT !.pressed = FALSE]
  /\ eventQueue' = Append(eventQueue, "pointerUp")
  /\ InputFrame

\* touchmove, touchstart, touchend with a first touch point
TouchListener ==
  /\ \E type \in {"touchmove", "touchstart", "touchend"} : Listening(type)
  /\ \E x \in host.xs, y \in host.ys :
       pointer' = [pointer EXCEPT !.x = x, !.y = y]
  /\ eventQueue' = Append(eventQueue, "pointerMove")
  /\ InputFrame

\* The page resizes the element.
ElementResize ==
  /\ pc \in {"ready", "idle"}
  /\ \E r \in host.sizes : r # rect /\ rect' = r
  /\ UNCHANGED <<settings, program, host, pc, listeners, state, stored,
                 eventQueue, pointer, buffer, metrics, interval, timeOffset,
                 timeSample, cols, rows, now, raf, context, cursor, visited, calls,
                 afterPre, outs, tickQueue, booted, lastCursor, gaps, helper>>


\* ------------------------------------------------------- what a program does
\* A phase or handler of the program makes one call of a buffer helper (or
\* none), with context.cols and context.rows as the target size.
NoCall ==
  [op |-> "none", val |-> Prim(Undefined), x |-> 0, y |-> 0, w |-> 0, h |-> 0,
   textObj |-> [text |-> << >>, style |-> EmptyObject]]
SetCall(v, x, y) == [NoCall EXCEPT !.op = "set", !.val = v, !.x = x, !.y = y]
MergeCall(v, x, y) == [NoCall EXCEPT !.op = "merge", !.val = v, !.x = x, !.y = y]
SetRectCall(v, x, y, w, h) ==
  [NoCall EXCEPT !.op = "setRect", !.val = v, !.x = x, !.y = y, !.w = w, !.h = h]
MergeRectCall(v, x, y, w, h) ==
  [NoCall EXCEPT !.op = "mergeRect", !.val = v, !.x = x, !.y = y, !.w = w, !.h = h]
MergeTextCall(text, style, x, y) ==
  [NoCall EXCEPT !.op = "mergeText", !.textObj = [text |-> text, style |-> style],
                 !.x = x, !.y = y]
\* A phase or handler that throws before it has called any helper.
ThrowCall == [NoCall EXCEPT !.op = "throw"]
\* What main does at a cell where it throws instead of returning.
MainThrows == [throws |-> TRUE]

ApplyCall(c, B, ctx) ==
  LET R == CASE c.op = "set" -> set(c.val, c.x, c.y, B, ctx.cols, ctx.rows)
             [] c.op = "merge" -> merge(c.val, c.x, c.y, B, ctx.cols, ctx.rows)
             [] c.op = "setRect" ->
                  setRect(c.val, c.x, c.y, c.w, c.h, B, ctx.cols, ctx.rows)
             [] c.op = "mergeRect" ->
                  mergeRect(c.val, c.x, c.y, c.w, c.h, B, ctx.cols, ctx.rows)
             [] c.op = "mergeText" ->
                  mergeText(c.textObj, c.x, c.y, B, ctx.cols, ctx.rows)
             [] c.op = "throw" -> [B EXCEPT !.threw = TRUE]
             [] OTHER -> B
  IN [R EXCEPT !.ids = Canon(R.ids)]

\* ------------------------------------------------------------ boot and loop
\* A context built after the tick has advanced the frame.
getContextAdvanced(st, s, m, r) ==
  [frame |-> st.frame + 1, time |-> st.time,
   cols |-> IF s.cols # 0 THEN s.cols ELSE r[1] \div m.cellWidth,
   rows |-> IF s.rows # 0 THEN s.rows ELSE r[2] \div m.lineHeight,
   width |-> r[1], height |-> r[2], cycle |-> st.cycle]

\* getContext(state, settings, metrics, fps).  The metrics and settings it also
\* carries never change; runtime.fps is the FPS tracker's (core/fps).
getContext(st, s, m, r) ==
  [frame |-> st.frame, time |-> st.time,
   cols |-> IF s.cols # 0 THEN s.cols ELSE r[1] \div m.cellWidth,
   rows |-> IF s.rows # 0 THEN s.rows ELSE r[2] \div m.lineHeight,
   width |-> r[1], height |-> r[2], cycle |-> st.cycle]

Entry(fn, coord, ctx, cur) == [fn |-> fn, coord |-> coord, context |-> ctx, cursor |-> cur]

\* boot(): metrics, the initial context, program.boot, the first request.
boot ==
  /\ pc = "ready"
  /\ metrics' = host.metrics
  /\ LET ctx == getContext(state, settings, host.metrics, rect) IN
       IF Defines("boot")
         THEN /\ calls' = <<Entry("boot", NoArg, ctx, NoArg)>>
              /\ booted' = booted + 1
         ELSE UNCHANGED <<calls, booted, lastCursor, gaps, helper>>
  /\ raf' = raf + 1
  /\ pc' = "idle"
  /\ UNCHANGED <<settings, program, host, listeners, state, stored, eventQueue,
                 pointer, buffer, rect, interval, timeOffset, timeSample, cols,
                 rows, now, context, cursor, visited, afterPre, outs, tickQueue,
                 lastCursor, gaps, helper>>

\* A throttle that also drops the signal that arrives exactly on the interval.
SkipsOnTheInterval(delta, ival) == ~JsLess(ival, delta)

\* if (delta < interval)
Skips(delta, ival) == JsLess(delta, ival)

\* A counter that counts the tick twice.
NextFrameTwice(f) == f + 2

\* state.frame++
NextFrame(f) == f + 1

\* A sample that is the signal's own timestamp.
NextSampleNow(t, delta, ival) == t

\* A sample taken with the remainder of the wrong operand: (t - delta) % interval.
NextSampleUnadjusted(t, delta, ival) == JsMod(JsSub(t, delta), ival)

\* timeSample = t - (delta % interval)
NextSample(t, delta, ival) == JsSub(t, JsMod(delta, ival))

\* A loop whose test of settings.once is inverted.
RequestsWhenOnce(s) == IF s.once THEN 1 ELSE 0

\* A loop that never asks for the next frame.
RequestsNever(s) == 0

\* A loop that asks for the next frame in single-shot mode too.
RequestsAlways(s) == 1

\* if (!settings.once) requestAnimationFrame(loop)
Requests(s) == IF s.once THEN 0 ELSE 1

\* How the signal at t came, after those before it (the last one at `last`).
NextGaps(g, last, t, ival) ==
  CASE g = "none" -> IF JsLess(ival, t) THEN "late" ELSE "steady"
    [] g = "broken" -> "broken"
    [] OTHER -> IF JsLess(ival, t - last) THEN "broken" ELSE g

\* loop(t), delta < interval: the signal is skipped.
LoopSkip ==
  /\ pc = "idle"
  /\ raf > 0
  /\ \E t \in {u \in host.times : u >= now} :
       /\ Skips(JsSub(t, timeSample), interval)
       /\ now' = t
       /\ gaps' = NextGaps(gaps, now, t, interval)
  /\ raf' = (raf - 1) + Requests(settings)
  /\ UNCHANGED <<settings, program, host, pc, listeners, state, stored,
                 eventQueue, pointer, buffer, metrics, rect, interval,
                 timeOffset, timeSample, cols, rows, context, cursor, visited,
                 calls, afterPre, outs, tickQueue, booted, lastCursor, helper>>

\* A cursor that takes the pointer's position as it is.
CursorUnclamped(ctx, ptr, m) ==
  [x |-> Frac(ptr.x, m.cellWidth),
   y |-> Frac(ptr.y, m.lineHeight),
   pressed |-> ptr.pressed,
   p |-> [x |-> Frac(ptr.px, m.cellWidth), y |-> Frac(ptr.py, m.lineHeight),
          pressed |-> ptr.ppressed]]

\* The cursor of a tick (lines 206-218).
Cursor(ctx, ptr, m) ==
  [x |-> FracMin(Frac(ctx.cols - 1, 1), Frac(ptr.x, m.cellWidth)),
   y |-> FracMin(Frac(ctx.rows - 1, 1), Frac(ptr.y, m.lineHeight)),
   pressed |-> ptr.pressed,
   p |-> [x |-> Frac(ptr.px, m.cellWidth), y |-> Frac(ptr.py, m.lineHeight),
          pressed |-> ptr.ppressed]]

\* loop(t), lines 193-223: the tick is accepted; context, timing, cursor.
LoopEnter ==
  /\ pc = "idle"
  /\ raf > 0
  /\ state.frame < host.maxFrames
  /\ \E t \in {u \in host.times : u >= now} :
       /\ ~Skips(JsSub(t, timeSample), interval)
       /\ now' = t
       /\ gaps' = NextGaps(gaps, now, t, interval)
       /\ timeSample' = NextSample(t, JsSub(t, timeSample), interval)
       /\ state' = [state EXCEPT !.time = t + timeOffset, !.frame = NextFrame(@)]
  /\ context' = getContext(state, settings, metrics, rect)
  /\ stored' = StorageStore(state')
  /\ cursor' = Cursor(context', pointer, metrics)
  /\ lastCursor' = [x |-> cursor'.x, y |-> cursor'.y, pressed |-> cursor'.pressed]
  /\ pointer' = [pointer EXCEPT !.px = pointer.x, !.py = pointer.y,
                                !.ppressed = pointer.pressed]
  /\ raf' = raf - 1
  /\ calls' = << >>
  /\ tickQueue' = eventQueue
  /\ pc' = "resize"
  /\ UNCHANGED <<settings, program, host, listeners, eventQueue, buffer,
                 metrics, rect, interval, timeOffset, cols, rows, visited,
                 afterPre, outs, booted, helper>>

\* The steps of an accepted tick, in the order of the statements of loop.
\* Events drained before the frame is painted.
StepAfterDrainFirst(step) ==
  CASE step = "resize" -> "pre"
    [] step = "pre" -> "main"
    [] step = "main" -> "post"
    [] step = "post" -> "drain"
    [] step = "drain" -> "render"
    [] step = "render" -> "request"

StepAfter(step) ==
  CASE step = "resize" -> "pre"
    [] step = "pre" -> "main"
    [] step = "main" -> "post"
    [] step = "post" -> "render"
    [] step = "render" -> "drain"
    [] step = "drain" -> "request"

\* A resize check that misses a change of one dimension alone.
NeedsResizeBoth(c, r, ctx) == c # ctx.cols /\ r # ctx.rows

\* if (cols != context.cols || rows != context.rows)
NeedsResize(c, r, ctx) == c # ctx.cols \/ r # ctx.rows

\* buffer.length = cols * rows, and every slot a new default cell
FreshBuffer(ctx, s) ==
  [cells |-> [i \in 1..(ctx.cols * ctx.rows) |->
                Assign(DEFAULT_CELL_STYLE(s), [char |-> EMPTY_CELL])],
   ids |-> [i \in 1..(ctx.cols * ctx.rows) |-> i],
   threw |-> FALSE]

\* 1. lines 227-234
LoopResize ==
  /\ pc = "resize"
  /\ IF NeedsResize(cols, rows, context)
       THEN /\ cols' = context.cols
            /\ rows' = context.rows
            /\ buffer' = FreshBuffer(context, settings)
            /\ calls' = Append(calls, Entry("resize", NoArg, context, NoArg))
       ELSE UNCHANGED <<cols, rows, buffer, calls>>
  /\ pc' = StepAfter("resize")
  /\ UNCHANGED <<settings, program, host, listeners, state, stored, eventQueue,
                 pointer, metrics, rect, interval, timeOffset, timeSample, now,
                 raf, context, cursor, visited, afterPre, outs, tickQueue,
                 booted, lastCursor, gaps, helper>>

\* A loop that catches what a call of the program throws and goes on.
AfterCallCaught(threw, step) == step

\* loop has no try: what a call of the program throws leaves loop at once,
\* otherwise the next statement runs.
AfterCall(threw, step) == IF threw THEN "crashed" ELSE step

\* 2. lines 238-240
LoopPre ==
  /\ pc = "pre"
  /\ IF Defines("pre")
       THEN /\ \E c \in program.preOps : buffer' = ApplyCall(c, buffer, context)
            /\ calls' = Append(calls, Entry("pre", NoArg, context, cursor))
       ELSE UNCHANGED <<buffer, calls>>
  /\ pc' = AfterCall(buffer'.threw, StepAfter("pre"))
  /\ afterPre' = buffer'.cells
  /\ visited' = 0
  /\ outs' = << >>
  /\ UNCHANGED <<settings, program, host, listeners, state, stored, eventQueue,
                 pointer, metrics, rect, interval, timeOffset, timeSample, cols,
                 rows, now, raf, context, cursor, tickQueue,
                 booted, lastCursor, gaps, helper>>

\* A main pass that walks the grid column by column.
CoordColumnMajor(k, ctx) ==
  LET i == k \div ctx.rows
      j == k % ctx.rows
  IN [x |-> i, y |-> j, index |-> i + j * ctx.cols]

\* The coord of the k-th call of main (k from 0): j outer, i inner,
\* idx = i + j * context.cols.
Coord(k, ctx) ==
  LET i == k % ctx.cols
      j == k \div ctx.cols
  IN [x |-> i, y |-> j, index |-> i + j * ctx.cols]

\* A main pass that replaces the cell by what main returned.
MainReplace(cell, out) ==
  LET merged == IF TypeofObject(out) /\ out # Prim(Null)
                  THEN Spread(out)
                  ELSE [char |-> out.prim]
  IN IF CharMissing(merged) THEN Assign(merged, [char |-> EMPTY_CELL]) ELSE merged

\* lines 258-266: what main returned becomes the cell
MainMerge(cell, out) ==
  LET merged == IF TypeofObject(out) /\ out # Prim(Null)
                  THEN Assign(Spread(cell), Spread(out))
                  ELSE Assign(Spread(cell), [char |-> out.prim])
  IN IF CharMissing(merged) THEN Assign(merged, [char |-> EMPTY_CELL]) ELSE merged

\* 3. lines 244-269, one cell at a time
LoopMain ==
  /\ pc = "main"
  /\ IF Defines("main") /\ visited < context.rows * context.cols
       THEN \E out \in program.mainOuts :
              LET c == Coord(visited, context)
                  T == Store(buffer, c.index, MainMerge(Slot(buffer, c.index), out),
                             NewId(buffer, c.index))
              IN /\ calls' = Append(calls, Entry("main", c, context, cursor))
                 /\ pc' = AfterCall(out = MainThrows, "main")
                 /\ IF out = MainThrows
                      THEN UNCHANGED <<buffer, outs, visited>>
                      ELSE /\ buffer' = [T EXCEPT !.ids = Canon(T.ids)]
                           /\ outs' = Append(outs, out)
                           /\ visited' = visited + 1
       ELSE /\ pc' = StepAfter("main")
            /\ UNCHANGED <<buffer, calls, outs, visited>>
  /\ UNCHANGED <<settings, program, host, listeners, state, stored, eventQueue,
                 pointer, metrics, rect, interval, timeOffset, timeSample, cols,
                 rows, now, raf, context, cursor, afterPre, tickQueue,
                 booted, lastCursor, gaps, helper>>

\* 4. lines 273-275
LoopPost ==
  /\ pc = "post"
  /\ IF Defines("post")
       THEN /\ \E c \in program.postOps : buffer' = ApplyCall(c, buffer, context)
            /\ calls' = Append(calls, Entry("post", NoArg, context, cursor))
       ELSE UNCHANGED <<buffer, calls>>
  /\ pc' = AfterCall(buffer'.threw, StepAfter("post"))
  /\ afterPre' = << >>
  /\ outs' = << >>
  /\ visited' = 0
  /\ UNCHANGED <<settings, program, host, listeners, state, stored, eventQueue,
                 pointer, metrics, rect, interval, timeOffset, timeSample, cols,
                 rows, now, raf, context, cursor, tickQueue,
                 booted, lastCursor, gaps, helper>>

\* 5. renderer.render(context, buffer)
LoopRender ==
  /\ pc = "render"
  /\ calls' = Append(calls, Entry("render", NoArg, context, NoArg))
  /\ pc' = StepAfter("render")
  /\ UNCHANGED <<settings, program, host, listeners, state, stored, eventQueue,
                 pointer, buffer, metrics, rect, interval, timeOffset,
                 timeSample, cols, rows, now, raf, context, cursor, visited,
                 afterPre, outs, tickQueue, booted, lastCursor, gaps, helper>>

\* A drain that takes the newest event first.
ShiftedLast(q) == q[Len(q)]

\* A drain that empties the queue after its first event.
AfterShiftAll(q) == << >>

\* const type = eventQueue.shift(): the event taken, and what is left
Shifted(q) == Head(q)
AfterShift(q) == Tail(q)

\* 6. lines 282-287, one event at a time
LoopDrain ==
  /\ pc = "drain"
  /\ IF Len(eventQueue) > 0
       THEN /\ eventQueue' = AfterShift(eventQueue)
            /\ IF Defines(Shifted(eventQueue))
                 THEN /\ \E c \in program.handlerOps :
                           buffer' = ApplyCall(c, buffer, context)
                      /\ calls' = Append(calls,
                                         Entry(Shifted(eventQueue), NoArg, context, cursor))
                 ELSE UNCHANGED <<buffer, calls>>
            /\ pc' = AfterCall(buffer'.threw, "drain")
       ELSE /\ pc' = StepAfter("drain")
            /\ UNCHANGED <<eventQueue, buffer, calls>>
  /\ UNCHANGED <<settings, program, host, listeners, state, stored, pointer,
                 metrics, rect, interval, timeOffset, timeSample, cols, rows,
                 now, raf, context, cursor, visited, afterPre, outs, tickQueue,
                 booted, lastCursor, gaps, helper>>

\* 7. line 291; the tick's snapshots go with it.
LoopRequest ==
  /\ pc = "request"
  /\ raf' = raf + Requests(settings)
  /\ pc' = "idle"
  /\ context' = NoArg
  /\ cursor' = NoArg
  /\ calls' = << >>
  /\ tickQueue' = << >>
  /\ UNCHANGED <<settings, program, host, listeners, state, stored, eventQueue,
                 pointer, buffer, metrics, rect, interval, timeOffset,
                 timeSample, cols, rows, now, visited, afterPre, outs,
                 booted, lastCursor, gaps, helper>>


\* ----------------------------------------------------- the runner as written
Next ==
  \/ Runner
  \/ PointerMoveListener
  \/ PointerDownListener
  \/ PointerUpListener
  \/ TouchListener
  \/ ElementResize

\* boot() and loop(t) as the closures define them, boot() being called once
\* runner() has returned and loop(t) by the host for every request.
LoopNext ==
  \/ Next
  \/ boot
  \/ LoopSkip
  \/ LoopEnter
  \/ LoopResize
  \/ LoopPre
  \/ LoopMain
  \/ LoopPost
  \/ LoopRender
  \/ LoopDrain
  \/ LoopRequest

\* ------------------------------------------------------------------ inputs
BaseSettings ==
  [hasElementKey |-> TRUE, element |-> "div", cols |-> 0, rows |-> 0,
   once |-> FALSE, fps |-> 500, restoreState |-> FALSE, color |-> Undefined,
   backgroundColor |-> Undefined, fontWeight |-> Undefined]

\* A monospace cell of 10 x 20 px.
BaseHost ==
  [metrics |-> [cellWidth |-> 10, lineHeight |-> 20],
   sizes |-> {<<25, 20>>, <<25, 45>>},
   xs |-> {0, 15}, ys |-> {0, 30},
   maxQueue |-> MaxQueue, times |-> 0..MaxTime,
   maxFrames |-> 2 * MaxTime + 8]

BaseProgram ==
  [defined |-> {}, preOps |-> {NoCall}, postOps |-> {NoCall},
   handlerOps |-> {NoCall}, mainOuts |-> {Prim("X")}]

SavedRecord == [has |-> TRUE, time |-> 3, frame |-> 7, cycle |-> 1, fps |-> 250]

\* Callers with and without an element, at several rates, restoring or not.
Init ==
  \E e \in {[k |-> TRUE, v |-> "div"], [k |-> TRUE, v |-> Null],
            [k |-> TRUE, v |-> Undefined], [k |-> FALSE, v |-> Undefined]},
     f \in {Unset, 0, 250, 500}, r \in BOOLEAN, d \in SUBSET {"boot", "main"} :
    Before([BaseSettings EXCEPT !.hasElementKey = e.k, !.element = e.v,
                                !.fps = f, !.restoreState = r],
           [BaseProgram EXCEPT !.defined = d],
           BaseHost,
           IF r THEN SavedRecord ELSE NoRecord)

Spec == Init /\ [][Next]_vars

\* The same, every call and every pending DOM event getting its turn.
StartSpec == Spec /\ WF_vars(Next)

\* Elements: callers with and without an element, restoring or not, for a
\* program with every phase and a handler on a 1 x 1 grid.
ElementInit ==
  \E e \in {[k |-> TRUE, v |-> "div"], [k |-> TRUE, v |-> Null],
            [k |-> TRUE, v |-> Undefined], [k |-> FALSE, v |-> Undefined]},
     r \in BOOLEAN :
    Before([BaseSettings EXCEPT !.hasElementKey = e.k, !.element = e.v,
                                !.restoreState = r, !.cols = 1, !.rows = 1],
           [BaseProgram EXCEPT
              !.defined = {"boot", "pre", "main", "post", "pointerDown"}],
           [BaseHost EXCEPT !.maxQueue = 1, !.xs = {15}, !.ys = {0},
                            !.times = 0..(MaxTime - 3)],
           IF r THEN SavedRecord ELSE NoRecord)

ElementSpec == ElementInit /\ [][LoopNext]_vars


\* Timing: a 1 x 1 grid, rates of 250, 500 and 1000 frames per second
\* (intervals of 4, 2 and 1 ms), looping or single-shot, a fresh or restored
\* state; one event at most is queued.
TimingInit ==
  \E f \in {250, 500, 1000}, o \in BOOLEAN, r \in BOOLEAN,
     d \in {{}, {"boot", "main", "pointerDown"}} :
    Before([BaseSettings EXCEPT !.fps = f, !.once = o, !.restoreState = r,
                                !.cols = 1, !.rows = 1],
           [BaseProgram EXCEPT !.defined = d],
           [BaseHost EXCEPT !.maxQueue = 1, !.xs = {15}, !.ys = {0}],
           IF r THEN SavedRecord ELSE NoRecord)

TimingSpec == TimingInit /\ [][LoopNext]_vars


\* Looping: the runs of TimingInit that loop, on a host that answers every
\* request and whose clock advances: a pending signal at least an interval
\* after the sample is eventually delivered, and a tick that has begun runs
\* to its end.
LoopingInit ==
  \E f \in {250, 500}, d \in {{}, {"boot", "main", "pointerDown"}} :
    Before([BaseSettings EXCEPT !.fps = f, !.cols = 1, !.rows = 1],
           [BaseProgram EXCEPT !.defined = d],
           [BaseHost EXCEPT !.maxQueue = 1, !.xs = {15}, !.ys = {0}],
           NoRecord)

LoopingSpec ==
  /\ LoopingInit
  /\ [][LoopNext]_vars
  /\ WF_vars(LoopEnter)
  /\ WF_vars(LoopResize \/ LoopPre \/ LoopMain \/ LoopPost \/ LoopRender
               \/ LoopDrain \/ LoopRequest)


\* Throws: a 2 x 1 grid and programs whose pre, main and post may throw, of
\* themselves or through merge on a slot that pre set to null.
CrashInit ==
  \E d \in SUBSET {"pre", "main", "post"}, o \in BOOLEAN :
    Before([BaseSettings EXCEPT !.cols = 2, !.rows = 1, !.once = o],
           [BaseProgram EXCEPT
              !.defined = d,
              !.preOps = {NoCall, ThrowCall, SetCall(Prim(Null), 0, 0)},
              !.postOps = {NoCall, ThrowCall, MergeCall([color |-> "red"], 0, 0)},
              !.mainOuts = {Prim("X"), MainThrows}],
           [BaseHost EXCEPT !.maxQueue = 1, !.xs = {15}, !.ys = {0},
                            !.times = 0..(MaxTime - 2)],
           NoRecord)

CrashSpec == CrashInit /\ [][LoopNext]_vars

\* Contexts: a program with every phase and a handler on a 1 x 1 grid, from
\* a fresh or a restored state, for as many ticks as the clock allows.
ContextInit ==
  \E r \in BOOLEAN, f \in {500, 1000} :
    Before([BaseSettings EXCEPT !.restoreState = r, !.fps = f,
                                !.cols = 1, !.rows = 1],
           [BaseProgram EXCEPT
              !.defined = {"boot", "pre", "main", "post", "pointerDown"}],
           [BaseHost EXCEPT !.maxQueue = 1, !.xs = {15}, !.ys = {0},
                            !.times = 0..(MaxTime - 2)],
           IF r THEN SavedRecord ELSE NoRecord)

ContextSpec == ContextInit /\ [][LoopNext]_vars


\* Rates: callers that pass no fps, or an fps of 0, with signals 20 ms apart,
\* followed for MaxFrames frames.
RateInit ==
  \E f \in {Unset, 0}, o \in BOOLEAN, d \in {{}, {"boot", "main", "pointerDown"}} :
    Before([BaseSettings EXCEPT !.fps = f, !.once = o, !.cols = 1, !.rows = 1],
           [BaseProgram EXCEPT !.defined = d],
           [BaseHost EXCEPT !.maxQueue = 1, !.xs = {15}, !.ys = {0},
                            !.times = {0, 20, 40}, !.maxFrames = MaxFrames],
           NoRecord)

RateSpec == RateInit /\ [][LoopNext]_vars


\* Pointers: a pointer that moves over and past a grid of 2 x 1 or 2 x 2 cells
\* and is pressed and released between the ticks.
PointerInit ==
  \E d \in {{}, {"boot", "main", "pointerMove"}} :
    Before(BaseSettings,
           [BaseProgram EXCEPT !.defined = d],
           [BaseHost EXCEPT !.maxQueue = 1, !.xs = {0, 15, 30},
                            !.times = 0..(MaxTime - 2)],
           NoRecord)

PointerSpec == PointerInit /\ [][LoopNext]_vars


\* Phases: every choice of pre, main and post, with and without handlers, on
\* an element that takes three sizes (grids of 1 x 1, 2 x 1 and 2 x 2); pre
\* writes a bare character, a handler merges a colour.
TickInit ==
  \E d \in SUBSET {"pre", "main", "post"}, e \in {{}, {"boot", "pointerDown"}} :
    Before([BaseSettings EXCEPT !.color = "blue", !.fontWeight = "700"],
           [BaseProgram EXCEPT !.defined = d \cup e,
                               !.preOps = {NoCall, SetCall(Prim("a"), 0, 0)},
                               !.handlerOps = {MergeCall([color |-> "red"], 0, 0)}],
           [BaseHost EXCEPT !.sizes = {<<10, 20>>, <<25, 20>>, <<25, 45>>},
                            !.maxQueue = 1, !.xs = {15}, !.ys = {0},
                            !.times = 0..(MaxTime - 2)],
           NoRecord)

TickSpec == TickInit /\ [][LoopNext]_vars

\* Events: programs with all, some or one of the handlers on a 1 x 1 grid,
\* the queue filled up to MaxQueue between ticks.
EventInit ==
  \E d \in {EventTypes, {"pointerDown", "pointerUp"}, {"boot", "pre", "main", "post", "pointerMove"}} :
    Before([BaseSettings EXCEPT !.cols = 1, !.rows = 1],
           [BaseProgram EXCEPT !.defined = d],
           [BaseHost EXCEPT !.xs = {15}, !.ys = {0}, !.times = 0..(MaxTime - 2)],
           NoRecord)

EventSpec == EventInit /\ [][LoopNext]_vars


\* boot() and loop(t) on a page that sends no input and keeps its size.
CellNext ==
  \/ Runner
  \/ boot
  \/ LoopSkip
  \/ LoopEnter
  \/ LoopResize
  \/ LoopPre
  \/ LoopMain
  \/ LoopPost
  \/ LoopRender
  \/ LoopDrain
  \/ LoopRequest

\* The programs of CellInit: what pre and post may call, what main may return.
GridProgram ==
  [BaseProgram EXCEPT
     !.preOps = {NoCall, SetCall(Prim("a"), 1, 0),
                 SetRectCall([char |-> "Z", color |-> "red"], 0, 0, 2, 1)},
     !.mainOuts = {Prim("X"), Prim(Undefined), [color |-> "red"]}]

RowProgram ==
  [BaseProgram EXCEPT
     !.preOps = {NoCall, SetCall(Prim(Null), 0, 0)},
     !.mainOuts = {Prim("X"), Prim(" "), [color |-> "red"], [char |-> Null]}]

HelperCalls ==
  {NoCall, SetCall(Prim("a"), 0, 0), SetCall(Prim(Null), 1, 0),
   MergeCall([char |-> Undefined], 0, 0),
   MergeTextCall(<<"h", "i">>, EmptyObject, 0, 0),
   MergeRectCall([color |-> "red"], 1, 0, 2, 1),
   SetRectCall([char |-> "Z"], 0, 0, 2, 1)}

HelperProgram == [BaseProgram EXCEPT !.preOps = HelperCalls, !.postOps = HelperCalls]

\* Cells: at 250 fps with frames at 2, 4 and 8 ms (one skipped, two accepted),
\* a 2 x 2 grid and a 3 x 1 grid whose main returns characters, undefined,
\* null-char and colour-only cells over what pre wrote, and a 2 x 1 grid whose
\* pre and post each make one helper call, with and without main.
CellInit ==
  \E g \in {[c |-> 2, r |-> 2, p |-> GridProgram, d |-> {"pre", "main"}],
            [c |-> 3, r |-> 1, p |-> RowProgram, d |-> {"main"}],
            [c |-> 3, r |-> 1, p |-> RowProgram, d |-> {"boot", "pre", "main", "post"}],
            [c |-> 2, r |-> 1, p |-> HelperProgram, d |-> {"pre", "post"}],
            [c |-> 2, r |-> 1, p |-> HelperProgram, d |-> {"post"}],
            [c |-> 2, r |-> 1, p |-> HelperProgram, d |-> {"pre", "main", "post"}]} :
    Before([BaseSettings EXCEPT !.cols = g.c, !.rows = g.r, !.fps = 250],
           [g.p EXCEPT !.defined = g.d],
           [BaseHost EXCEPT !.sizes = {<<25, 20>>}, !.times = {2, 4, 8}],
           NoRecord)

CellSpec == CellInit /\ [][CellNext]_vars


\* ------------------------------------------- the buffer helpers by themselves
\* modules/buffer.ts called on the buffer of a 3 x 2 grid as a resize leaves
\* it, one helper after the other, at columns and rows inside and outside it.
GetCall(x, y) == [NoCall EXCEPT !.op = "get", !.x = x, !.y = y]
Returned(T, v) == [threw |-> T.threw, value |-> IF T.threw THEN Prim(Undefined) ELSE v]
NoHelper == [n |-> 0, call |-> NoCall, ret |-> Returned(EmptyBuffer, Prim(Undefined))]

HelperXs == {0 - 1, 0, 2, 3}
HelperYs == {0, 1, 2}
HelperRects == {<<0, 0, 2, 1>>, <<2, 1, 2, 2>>, <<0 - 1, 0, 2, 1>>}
HelperTexts ==
  {<<"a", "b", "\n", "c", "d">>, <<"a", "b", "\n">>, <<"a", "b", "c", "d">>, << >>}

\* One call c of a helper, leaving the target as T and returning v.
Helper(c, T, v) ==
  /\ pc = "helpers"
  /\ ~buffer.threw
  /\ helper.n < MaxOps
  /\ buffer' = [T EXCEPT !.ids = Canon(T.ids)]
  /\ helper' = [n |-> helper.n + 1, call |-> c, ret |-> Returned(T, v)]
  /\ UNCHANGED <<settings, program, host, pc, listeners, state, stored,
                 eventQueue, pointer, metrics, rect, interval, timeOffset,
                 timeSample, cols, rows, now, raf, context, cursor, visited,
                 calls, afterPre, outs, tickQueue, booted, lastCursor, gaps>>

GetHelper ==
  \E x \in HelperXs, y \in HelperYs :
    Helper(GetCall(x, y), buffer, get(x, y, buffer, cols, rows))

SetHelper ==
  \E x \in HelperXs, y \in HelperYs,
     v \in {Prim("a"), Prim(Null), Prim(Undefined), [char |-> "Z"]} :
    Helper(SetCall(v, x, y), set(v, x, y, buffer, cols, rows), Prim(Undefined))

MergeHelper ==
  \E x \in HelperXs, y \in HelperYs, v \in {[color |-> "red"], [char |-> "Y"]} :
    Helper(MergeCall(v, x, y), merge(v, x, y, buffer, cols, rows), Prim(Undefined))

SetRectHelper ==
  \E r \in HelperRects, v \in {[char |-> "Z"], Prim("a")} :
    Helper(SetRectCall(v, r[1], r[2], r[3], r[4]),
           setRect(v, r[1], r[2], r[3], r[4], buffer, cols, rows), Prim(Undefined))

MergeRectHelper ==
  \E r \in HelperRects :
    Helper(MergeRectCall([color |-> "red"], r[1], r[2], r[3], r[4]),
           mergeRect([color |-> "red"], r[1], r[2], r[3], r[4], buffer, cols, rows),
           Prim(Undefined))

MergeTextHelper ==
  \E t \in HelperTexts, st \in {EmptyObject, [color |-> "red"]},
     p \in {<<0, 0>>, <<2, 0>>, <<1, 1>>} :
    LET c == MergeTextCall(t, st, p[1], p[2])
        T == mergeText(c.textObj, p[1], p[2], buffer, cols, rows)
    IN Helper(c, T, TextReturn(c.textObj, p[1], p[2], T, cols, rows))

BufferNext ==
  \/ GetHelper
  \/ SetHelper
  \/ MergeHelper
  \/ SetRectHelper
  \/ MergeRectHelper
  \/ MergeTextHelper

BufferInit ==
  /\ settings = [BaseSettings EXCEPT !.cols = 3, !.rows = 2, !.color = "blue"]
  /\ program = BaseProgram
  /\ host = BaseHost
  /\ stored = NoRecord
  /\ pc = "helpers"
  /\ listeners = {}
  /\ rect \in {<<25, 20>>}
  /\ now = 0
  /\ raf = 0
  /\ booted = 0
  /\ state = InitialState(settings)
  /\ eventQueue = << >>
  /\ pointer = InitialPointer
  /\ metrics = host.metrics
  /\ timeSample = 0
  /\ interval = JsDiv1000(settings.fps)
  /\ timeOffset = 0
  /\ cols = 3
  /\ rows = 2
  /\ buffer = FreshBuffer([cols |-> 3, rows |-> 2], settings)
  /\ context = NoArg
  /\ cursor = NoArg
  /\ visited = 0
  /\ calls = << >>
  /\ afterPre = << >>
  /\ outs = << >>
  /\ tickQueue = << >>
  /\ lastCursor = NoArg
  /\ gaps = "none"
  /\ helper = NoHelper

BufferSpec == BufferInit /\ [][BufferNext]_vars


\* ================================================================== claims
\* A signal is accepted by the step that takes loop from waiting into its
\* first phase; it is skipped by a step that leaves loop waiting and shows
\* on the clock, on the record of the signals' gaps or on the pending request.
Accepts == pc = "idle" /\ pc' = "resize"
SkipsSignal ==
  /\ pc = "idle"
  /\ pc' = "idle"
  /\ now' # now \/ gaps' # gaps \/ raf' # raf

\* C1: once the runner is set up, state.frame goes up by exactly 1 in the
\* step that accepts a signal and is left as it is by every other step, a
\* skipped signal included: it never decreases and never advances by more
\* than 1 per signal.
C1_FramePerTick ==
  [][/\ Accepts => state'.frame = state.frame + 1
     /\ (~Accepts /\ pc # "start") => state'.frame = state.frame]_vars

\* C1 witness: a fresh run that accepted two ticks and then skipped a signal.
C1_Witness ==
  /\ pc = "idle"
  /\ ~settings.restoreState
  /\ state.frame = 2
  /\ now > state.time

\* C2: with fps > 0, a signal with timestamp now' is accepted if and only if
\* now' - timeSample >= 1000 / fps, timeSample being 0 until the first
\* accepted tick and changed by accepted ticks only.
C2_Throttle ==
  [][/\ settings.fps > 0
     /\ Accepts => (now' - timeSample) * settings.fps >= 1000
     /\ SkipsSignal => (now' - timeSample) * settings.fps < 1000
     /\ (pc = "idle" /\ cols = Unset) => timeSample = 0
     /\ ~Accepts => timeSample' = timeSample]_vars

\* C2 witness: a tick was accepted exactly on the interval, and a later
\* signal, less than an interval after it, was skipped.
C2_Witness ==
  /\ pc = "idle"
  /\ cols # Unset
  /\ timeSample * settings.fps = 1000
  /\ now > timeSample


\* The names of the calls of the tick, in order.
CallNames == [i \in DOMAIN calls |-> calls[i].fn]
Times(n, name) == [i \in 1..n |-> name]
Opt(cond, name) == IF cond THEN <<name>> ELSE << >>
Handled(q) == SelectSeq(q, Defines)

\* What a tick calls, step by step: the resize first if there is one, pre,
\* main once per cell, post, the renderer, then the handlers of the events
\* the tick found queued.
UpToPre(resized) == Opt(resized, "resize") \o Opt(Defines("pre"), "pre")
UpToMain(resized) ==
  UpToPre(resized)
    \o Times(IF Defines("main") THEN context.cols * context.rows ELSE 0, "main")
UpToPost(resized) == UpToMain(resized) \o Opt(Defines("post"), "post")
UpToRender(resized) == UpToPost(resized) \o <<"render">>
WholeTick(resized) == UpToRender(resized) \o Handled(tickQueue)

Resized == calls # << >> /\ calls[1].fn = "resize"

\* C3: in an accepted tick the steps run in the order resize (if needed), pre,
\* main for every cell, post, render, drain, request, each at most once (main
\* once per cell); a phase the program does not define is left out and the
\* steps after it still run; no signal is requested before the last step.
C3_PhaseOrder ==
  [][/\ pc' = "main" /\ pc = "pre" => CallNames' = UpToPre(Resized')
     /\ pc' = "post" => CallNames' = UpToMain(Resized')
     /\ pc' = "render" => CallNames' = UpToPost(Resized')
     /\ pc' = "drain" /\ pc = "render" => CallNames' = UpToRender(Resized')
     /\ pc' = "request" => /\ CallNames' = WholeTick(Resized')
                            /\ eventQueue' = << >>
                            /\ raf' = 0
     /\ pc = "request" => /\ pc' = "idle"
                           /\ raf' = IF settings.once THEN 0 ELSE 1
     /\ pc' # "crashed"]_vars

\* C3 witness: a tick of a program with main and a handler but neither pre
\* nor post reached its last step on a 2 x 2 grid, with an event delivered.
C3_Witness ==
  /\ pc = "request"
  /\ ~Defines("pre") /\ ~Defines("post")
  /\ CallNames = <<"main", "main", "main", "main", "render", "pointerDown">>

DefaultCell ==
  [color |-> settings.color, backgroundColor |-> settings.backgroundColor,
   fontWeight |-> settings.fontWeight, char |-> " "]

\* C4: when the grid size an accepted tick sees differs from that of the
\* previous accepted tick (always so on the first tick), the resize step
\* leaves cols * rows cells, each a new default-style cell with a space;
\* when it does not differ, the step leaves the buffer as the previous tick
\* left it.
C4_Resize ==
  [][/\ pc = "ready" => cols = Unset /\ rows = Unset
     /\ pc = "request" => cols = context.cols /\ rows = context.rows
     /\ pc # "resize" => cols' = cols /\ rows' = rows
     /\ pc \in {"request", "idle"} => buffer' = buffer
     /\ (pc = "resize" /\ (cols # context.cols \/ rows # context.rows)) =>
          /\ pc' = "pre"
          /\ Len(buffer'.cells) = context.cols * context.rows
          /\ \A i \in DOMAIN buffer'.cells : buffer'.cells[i] = DefaultCell
          /\ \A i, j \in DOMAIN buffer'.ids :
               buffer'.ids[i] # 0 /\ (i # j => buffer'.ids[i] # buffer'.ids[j])
     /\ (pc = "resize" /\ cols = context.cols /\ rows = context.rows) =>
          /\ pc' = "pre"
          /\ buffer' = buffer]_vars

\* C4 witness: the second tick finds the grid grown from 2 x 1 to 2 x 2 and has
\* just reallocated a buffer that held other cells.
C4_Witness ==
  /\ pc = "pre"
  /\ state.frame = 2
  /\ Resized
  /\ context.cols = 2 /\ context.rows = 2
  /\ Len(buffer.cells) = 4

\* The calls of event handlers among the calls of the tick.
HandlerCalls == SelectSeq(calls, LAMBDA c : c.fn \in EventTypes)

\* C6: the handlers a drain invokes are those of the events the tick found
\* queued, in the order they were queued, and every one of them is given the
\* context and the cursor of that tick, the same that pre, main and post got.
C6_DrainOrder ==
  pc \in {"drain", "request"} =>
    /\ [i \in DOMAIN HandlerCalls |-> HandlerCalls[i].fn] \o Handled(eventQueue)
         = Handled(tickQueue)
    /\ \A i \in DOMAIN HandlerCalls :
         /\ HandlerCalls[i].context = context
         /\ HandlerCalls[i].cursor = cursor
    /\ \A i \in DOMAIN calls :
         /\ calls[i].context = context
         /\ calls[i].cursor \in {cursor, NoArg}
    /\ cursor.pressed = pointer.pressed
    /\ pc = "request" => eventQueue = << >>

\* C6 witness: pointerDown, pointerMove and pointerUp, queued in that order,
\* have been delivered in that order in one drain.
C6_Witness ==
  /\ pc = "request"
  /\ tickQueue = <<"pointerDown", "pointerMove", "pointerUp">>
  /\ [i \in DOMAIN HandlerCalls |-> HandlerCalls[i].fn] = tickQueue
  /\ ~cursor.pressed


\* The fields of a slot read as a cell: those of an object; a bare character
\* has only its index key, undefined and null have none.
FieldsOf(slot) == Spread(slot)
Field(o, f) == IF f \in DOMAIN o THEN o[f] ELSE Undefined

\* The cell the claims describe for a slot `old` and a value `out` of main:
\* the fields of a non-null object go over those of the old cell, any other
\* value becomes the char, and an undefined or null char becomes a space.
IsCellObject(out) == IsObject(out)
ResolvedChar(old, out) ==
  LET c == IF IsCellObject(out)
             THEN (IF "char" \in DOMAIN out THEN out["char"]
                   ELSE Field(FieldsOf(old), "char"))
             ELSE out.prim
  IN IF c \in {Undefined, Null} THEN " " ELSE c
Resolved(old, out) ==
  [f \in (DOMAIN FieldsOf(old)) \cup (IF IsCellObject(out) THEN DOMAIN out ELSE {})
         \cup {"char"} |->
     IF f = "char" THEN ResolvedChar(old, out)
     ELSE IF IsCellObject(out) /\ f \in DOMAIN out THEN out[f]
     ELSE FieldsOf(old)[f]]

MainCalls == SelectSeq(calls, LAMBDA c : c.fn = "main")

\* C7: the n-th call of main (n from 0) is for the cell of index n, with
\* index = x + y * cols, x in [0, cols) and y in [0, rows): row by row.  When
\* main is called next, every cell it was already called for holds this
\* tick's result and every other cell holds what it held after pre.
C7_RowMajor ==
  pc = "main" =>
    /\ Len(MainCalls) = visited
    /\ Len(outs) = visited
    /\ \A n \in DOMAIN MainCalls :
         LET c == MainCalls[n].coord IN
           /\ c.index = n - 1
           /\ c.index = c.x + c.y * context.cols
           /\ c.x >= 0 /\ c.x < context.cols
           /\ c.y >= 0 /\ c.y < context.rows
    /\ Len(buffer.cells) = context.cols * context.rows
    /\ \A i \in DOMAIN buffer.cells :
         IF i <= visited
           THEN buffer.cells[i] = Resolved(afterPre[i], outs[i])
           ELSE buffer.cells[i] = afterPre[i]

\* C7 witness: the second tick of the 2 x 2 grid is about to call main for
\* (0, 1); row 0 holds this tick's cells, row 1 still those of the first tick.
C7_Witness ==
  /\ pc = "main"
  /\ state.frame = 2
  /\ context.cols = 2 /\ context.rows = 2
  /\ visited = 2
  /\ outs = <<Prim("X"), Prim("X")>>
  /\ buffer.cells[1].char = "X" /\ buffer.cells[2].char = "X"
  /\ buffer.cells[3].char = " " /\ buffer.cells[3].color = "red"
  /\ buffer.cells[4].char = " "

\* C8: the cell main was called for becomes: the old cell with the fields of
\* a returned non-null object written over it (the other fields kept); the
\* old cell with only char replaced when anything else is returned; and a
\* char then undefined or null is a single space.  On a new 3 x 1 grid, main
\* returning " ", "X", " " gives chars " ", "X", " " with the default style.
C8_MergeRule ==
  (pc = "main" /\ visited > 0) =>
    LET i == visited
        old == afterPre[i]
        out == outs[i]
        new == buffer.cells[i]
    IN /\ IsObject(new)
       /\ "char" \in DOMAIN new /\ new["char"] \notin {Undefined, Null}
       /\ IsObject(out) =>
            /\ \A f \in DOMAIN out : f # "char" => new[f] = out[f]
            /\ ("char" \in DOMAIN out /\ out["char"] \notin {Undefined, Null})
                 => new["char"] = out["char"]
            /\ (IsObject(old) /\ "char" \notin DOMAIN out /\ ~CharMissing(old))
                 => new["char"] = old["char"]
            /\ IsObject(old) =>
                 \A f \in (DOMAIN old) \ (DOMAIN out) :
                   f # "char" => new[f] = old[f]
       /\ ~IsObject(out) =>
            /\ new["char"] = IF out.prim \in {Undefined, Null} THEN " " ELSE out.prim
            /\ IsObject(old) => /\ DOMAIN new = (DOMAIN old) \cup {"char"}
                                /\ \A f \in DOMAIN old : f # "char" => new[f] = old[f]
       /\ (/\ context.cols = 3 /\ context.rows = 1 /\ visited = 3
           /\ \A k \in 1..3 : afterPre[k] = DefaultCell
           /\ outs = <<Prim(" "), Prim("X"), Prim(" ")>>)
            => buffer.cells = <<DefaultCell, [DefaultCell EXCEPT !.char = "X"],
                                DefaultCell>>

\* C8 witness: the example, on the first tick of the 3 x 1 grid.
C8_Witness ==
  /\ pc = "main"
  /\ context.cols = 3 /\ context.rows = 1 /\ visited = 3
  /\ state.frame = 1
  /\ outs = <<Prim(" "), Prim("X"), Prim(" ")>>
  /\ buffer.cells = <<DefaultCell, [DefaultCell EXCEPT !.char = "X"], DefaultCell>>

AllCharsSet ==
  /\ Len(buffer.cells) = context.cols * context.rows
  /\ \A i \in DOMAIN buffer.cells :
       /\ IsObject(buffer.cells[i])
       /\ ~("char" \notin DOMAIN buffer.cells[i])
       /\ buffer.cells[i]["char"] \notin {Undefined, Null}

\* C9 as claimed: at the end of every accepted tick every slot is a cell with
\* a char that is neither undefined nor null, whether or not the program has
\* a main, pre and post writing through the buffer helpers only.
C9_CharAtTickEnd == pc = "request" => AllCharsSet

\* C9 as amended: for a program that defines main, every slot is a cell with
\* a char neither undefined nor null when the main pass ends, whatever pre
\* wrote through the helpers, and still so at the end of the tick when post
\* writes nothing.
C9_CharAfterMain ==
  Defines("main") =>
    /\ (pc = "main" /\ visited = context.cols * context.rows) => AllCharsSet
    /\ pc = "post" => AllCharsSet
    /\ (pc = "request" /\ (~Defines("post") \/ program.postOps = {NoCall}))
         => AllCharsSet

\* C9 witness: a main pass ended on a row whose first slot pre had set to
\* null, main having returned a null char for it.
C9_Witness ==
  /\ pc = "post"
  /\ Defines("main") /\ Defines("pre")
  /\ afterPre[1] = Prim(Null)
  /\ outs[1] = [char |-> Null]
  /\ buffer.cells[1]["char"] = " "


\* C5: once the runner has returned for a valid element, the boot sequence
\* runs: program.boot, when defined, is invoked once and the first animation
\* frame is requested.
C5_BootRuns ==
  (pc = "ready") ~> (raf > 0 /\ (Defines("boot") => booted = 1))

\* C10: for settings without an element the runner fails before the loop: no
\* listener is registered, no boot, pre, main, post, handler or render is
\* invoked, no event is queued, nothing is stored, the buffer stays empty and
\* no animation frame is requested.
C10_NoElementFails ==
  (~settings.hasElementKey \/ settings.element \in {Undefined, Null}) =>
    /\ pc \in {"start", "failed"}
    /\ listeners = {}
    /\ eventQueue = << >>
    /\ calls = << >>
    /\ booted = 0
    /\ raf = 0
    /\ stored = (IF settings.restoreState THEN SavedRecord ELSE NoRecord)
    /\ buffer = EmptyBuffer

\* C10 witness: the runner has failed for settings whose element is undefined
\* although restoreState is set and a record is stored.
C10_Witness ==
  /\ pc = "failed"
  /\ settings.hasElementKey /\ settings.element = Undefined
  /\ settings.restoreState /\ stored = SavedRecord


\* C11: for a caller whose fps is 0 or absent the throttle works at the
\* default rate: a signal is accepted when at least 1000/30 ms have
\* accumulated since the last sample and skipped when less.
C11_DefaultRate ==
  [][(settings.fps \in {Unset, 0}) =>
       /\ Accepts => (timeSample # NaN /\ (now' - timeSample) * DefaultFps >= 1000)
       /\ SkipsSignal =>
            (timeSample # NaN /\ (now' - timeSample) * DefaultFps < 1000)]_vars


\* C12: the record is written in the step that accepts a signal, with the
\* time, frame, cycle and fps the tick has just set, when restoreState is
\* enabled; no other step writes it, and no step at all when restoreState is
\* disabled.
C12_StoreWhenEnabled ==
  [][/\ (Accepts /\ settings.restoreState) =>
          stored' = [has |-> TRUE, time |-> state'.time,
                     frame |-> state.frame + 1, cycle |-> state.cycle,
                     fps |-> state.fps]
     /\ (~Accepts \/ ~settings.restoreState) => stored' = stored]_vars


FracLeq(a, b) == a[1] * b[2] <= b[1] * a[2]

\* C13: the cursor of every accepted tick has x <= cols - 1 and y <= rows - 1,
\* wherever the pointer is.
C13_CursorInGrid ==
  cursor # NoArg =>
    /\ FracLeq(cursor.x, <<context.cols - 1, 1>>)
    /\ FracLeq(cursor.y, <<context.rows - 1, 1>>)

\* C13 witness: a tick with the pointer at (30, 30) px, past the last column
\* and the last row of a 2 x 2 grid of 10 x 20 px cells.
C13_Witness ==
  /\ cursor # NoArg
  /\ context.cols = 2 /\ context.rows = 2
  /\ pointer.px = 30 /\ pointer.py = 30
  /\ cursor.x = <<1, 1>> /\ cursor.y = <<1, 1>>

\* C14: with the grid size unchanged, the p of the cursor of an accepted tick
\* is the x, y and pressed of the cursor of the accepted tick before it, and
\* (0, 0, false) on the first; the pointer's shadow copy is overwritten by the
\* step that accepts a signal, with the pointer it used, and by no other step.
C14_PreviousCursor ==
  [][/\ (Accepts /\ lastCursor = NoArg) =>
          cursor'.p = [x |-> <<0, 1>>, y |-> <<0, 1>>, pressed |-> FALSE]
     /\ (Accepts /\ lastCursor # NoArg
           /\ context'.cols = cols /\ context'.rows = rows) =>
          cursor'.p = lastCursor
     /\ Accepts => /\ pointer'.px = pointer.x /\ pointer'.py = pointer.y
                   /\ pointer'.ppressed = pointer.pressed
     /\ ~Accepts => /\ pointer'.px = pointer.px /\ pointer'.py = pointer.py
                    /\ pointer'.ppressed = pointer.ppressed]_vars


\* The ticks accepted since the runner was started.
Started == pc \notin {"start", "failed"}
Accepted ==
  state.frame - (IF settings.restoreState THEN SavedRecord.frame ELSE 0)

\* C15 as claimed: with fps > 0, the ticks accepted up to the last signal's
\* timestamp T are at most T / interval, and at least T / interval - 1 when
\* no signal came more than an interval after the one before it.
C15_RateBounds ==
  (Started /\ settings.fps > 0) =>
    /\ Accepted * interval <= now
    /\ gaps \in {"none", "steady", "late"} => (Accepted + 1) * interval >= now

\* C15 as amended: the lower bound holds when, besides, the first signal came
\* no more than an interval after time 0.
C15_RateBoundsFromZero ==
  (Started /\ settings.fps > 0) =>
    /\ Accepted * interval <= now
    /\ gaps \in {"none", "steady"} => (Accepted + 1) * interval >= now

\* C15 witness: at 500 fps, signals never more than 2 ms apart, the one at
\* 5 ms skipped after two accepted ticks.
C15_Witness ==
  /\ pc = "idle"
  /\ gaps = "steady"
  /\ interval = 2
  /\ now = 5 /\ timeSample = 4
  /\ Accepted = 2


\* The step in which the helper `op` was called, the slot i (from 1) of a cell,
\* and a slot read as a cell: an object as it is, a bare character c as
\* {char: c}.
HelperDid(op) == helper'.n = helper.n + 1 /\ helper'.call.op = op
InGrid(x, y) == x >= 0 /\ x < cols /\ y >= 0 /\ y < rows
SlotOf(x, y) == x + y * cols + 1
ColOf(i) == (i - 1) % cols
RowOf(i) == (i - 1) \div cols
Flat(old) == IF IsObject(old) THEN old ELSE [char |-> old.prim]
Missing(old) == old \in {Prim(Undefined), Prim(Null)}

\* C16 as claimed: get raises no error and leaves the buffer as it is; outside
\* the grid it returns an empty object, inside it the slot x + y * cols, which
\* is never undefined when the buffer has cols * rows slots.
C16_GetNeverUndefined ==
  [][HelperDid("get") =>
       LET c == helper'.call
           r == helper'.ret
       IN /\ ~r.threw
          /\ buffer' = buffer
          /\ ~InGrid(c.x, c.y) => r.value = EmptyObject
          /\ InGrid(c.x, c.y) =>
               /\ r.value = buffer.cells[SlotOf(c.x, c.y)]
               /\ Len(buffer.cells) = cols * rows => r.value # Prim(Undefined)]_vars

\* C16: get raises no error and leaves the buffer as it is; outside the grid
\* it returns an empty object, inside it whatever the slot x + y * cols holds,
\* as it is: the default cell on a buffer no helper has written to yet, and
\* undefined where a set has stored undefined.
C16_SafeGet ==
  [][HelperDid("get") =>
       LET c == helper'.call
           r == helper'.ret
       IN /\ ~r.threw
          /\ buffer' = buffer
          /\ ~InGrid(c.x, c.y) => r.value = EmptyObject
          /\ InGrid(c.x, c.y) =>
               /\ r.value = buffer.cells[SlotOf(c.x, c.y)]
               /\ helper.n = 0 =>
                    r.value = Assign(DEFAULT_CELL_STYLE(settings),
                                     [char |-> EMPTY_CELL])
               /\ (helper.call = SetCall(Prim(Undefined), c.x, c.y))
                    => r.value = Prim(Undefined)]_vars

\* C16 witness: on the 3 x 2 grid a set had stored undefined in the last
\* slot, and get(2, 1) returned it.
C16_Witness ==
  /\ pc = "helpers"
  /\ Len(buffer.cells) = cols * rows
  /\ helper.call = GetCall(2, 1)
  /\ helper.ret.value = Prim(Undefined)
  /\ buffer.cells[6] = Prim(Undefined)

\* C17: outside the grid set and merge leave every slot as it is; inside it
\* set puts its value, as it is, in slot x + y * cols, and merge puts there
\* the old cell (a bare character c as {char: c}) with the fields of its
\* argument written over it; every other slot is left as it is.
C17_SetAndMerge ==
  [][/\ HelperDid("set") =>
          LET c == helper'.call IN
            /\ DOMAIN buffer'.cells = DOMAIN buffer.cells
            /\ \A j \in DOMAIN buffer.cells :
                 buffer'.cells[j] =
                   IF InGrid(c.x, c.y) /\ j = SlotOf(c.x, c.y)
                     THEN c.val ELSE buffer.cells[j]
     /\ HelperDid("merge") =>
          LET c == helper'.call IN
            /\ DOMAIN buffer'.cells = DOMAIN buffer.cells
            /\ \A j \in DOMAIN buffer.cells :
                 IF InGrid(c.x, c.y) /\ j = SlotOf(c.x, c.y)
                   THEN ~Missing(buffer.cells[j]) =>
                          buffer'.cells[j] = Assign(Flat(buffer.cells[j]), c.val)
                   ELSE buffer'.cells[j] = buffer.cells[j]]_vars

InRect(c, j) ==
  /\ ColOf(j) >= c.x /\ ColOf(j) < c.x + c.w
  /\ RowOf(j) >= c.y /\ RowOf(j) < c.y + c.h

\* C18: setRect and mergeRect do to every slot of the grid that lies in the
\* rectangle [x, x + w) x [y, y + h) what set and merge do to one slot, also
\* when part of the rectangle is outside the grid, and leave every slot
\* outside the rectangle as it is.
C18_Rects ==
  [][/\ HelperDid("setRect") =>
          LET c == helper'.call IN
            /\ DOMAIN buffer'.cells = DOMAIN buffer.cells
            /\ \A j \in DOMAIN buffer.cells :
                 buffer'.cells[j] = IF InRect(c, j) THEN c.val ELSE buffer.cells[j]
     /\ HelperDid("mergeRect") =>
          LET c == helper'.call IN
            /\ DOMAIN buffer'.cells = DOMAIN buffer.cells
            /\ \A j \in DOMAIN buffer.cells :
                 IF InRect(c, j)
                   THEN (~Missing(buffer.cells[j]) /\ ~helper'.ret.threw) =>
                          buffer'.cells[j] = Assign(Flat(buffer.cells[j]), c.val)
                   ELSE buffer'.cells[j] = buffer.cells[j]]_vars

\* The lines of the text of a mergeText call, and its last line that has a
\* character.
LinesOf(c) == SplitLines(c.textObj.text)
LastFull(c) == MaxOf({l \in DOMAIN LinesOf(c) : LinesOf(c)[l] # << >>})
CharAt(c, j) ==
  LET l == (RowOf(j) - c.y) + 1
      k == (ColOf(j) - c.x) + 1
  IN IF l \in DOMAIN LinesOf(c) /\ k \in DOMAIN LinesOf(c)[l]
       THEN <<LinesOf(c)[l][k]>> ELSE << >>

\* C19: mergeText merges character k of line l into the cell (x + k, y + l)
\* when the grid has it, leaves every other cell as it is, and returns as
\* offset the column and row of the last character of the text.
C19_MergeText ==
  [][HelperDid("mergeText") =>
       LET c == helper'.call IN
         /\ DOMAIN buffer'.cells = DOMAIN buffer.cells
         /\ \A j \in DOMAIN buffer.cells :
              IF CharAt(c, j) # << >>
                THEN (~Missing(buffer.cells[j]) /\ ~helper'.ret.threw) =>
                       buffer'.cells[j] =
                         Assign(Flat(buffer.cells[j]),
                                Assign([char |-> CharAt(c, j)[1]], c.textObj.style))
                ELSE buffer'.cells[j] = buffer.cells[j]
         /\ (~helper'.ret.threw /\ \E l \in DOMAIN LinesOf(c) : LinesOf(c)[l] # << >>) =>
              helper'.ret.value.offset =
                [col |-> (c.x + Len(LinesOf(c)[LastFull(c)])) - 1,
                 row |-> (c.y + LastFull(c)) - 1]]_vars


\* C20: a skipped signal leaves frame, time, timeSample, the stored record,
\* the pointer with its shadow copy, the buffer, the grid size and the event
\* queue as they are and calls nothing; it takes the request that brought it
\* and makes one for the next signal unless the runner is in single-shot mode.
C20_SkipChangesNothing ==
  [][SkipsSignal =>
       /\ UNCHANGED <<state, timeSample, timeOffset, stored, pointer, buffer,
                      cols, rows, eventQueue, calls, booted, listeners>>
       /\ raf' = (raf - 1) + (IF settings.once THEN 0 ELSE 1)]_vars

\* C20 witness: in single-shot mode the signal at 3 ms was skipped with an
\* event queued: no tick was accepted, no request is left.
C20_Witness ==
  /\ pc = "idle"
  /\ settings.once
  /\ now = 3
  /\ raf = 0
  /\ Accepted = 0
  /\ eventQueue # << >>


\* C21: timeSample is always a multiple of the interval, the largest one not
\* after the last signal: 0 <= now - timeSample < interval, however late the
\* signals came and however many were skipped.
C21_SampleOnTheGrid ==
  Started =>
    /\ timeSample % interval = 0
    /\ 0 <= now - timeSample
    /\ now - timeSample < interval

\* C21 witness: at 500 fps the first signal came at 5 ms and was accepted:
\* the sample is 4, not 5.
C21_Witness ==
  /\ Started
  /\ interval = 2
  /\ Accepted = 1
  /\ now = 5
  /\ timeSample = 4


\* A step of an input listener: the queue has one more event at its end.
Pushes == \E e \in EventTypes : eventQueue' = Append(eventQueue, e)

\* A step of the drain that takes the event at the head of the queue.
Drains == pc = "drain" /\ eventQueue # << >> /\ eventQueue' = Tail(eventQueue)

\* C22: the queue changes only by a listener's push at its end or by the
\* drain of an accepted tick taking its head; the event taken is handed to its
\* handler once if the program defines it and to nothing otherwise; a skipped
\* signal leaves the queue as it is, and a tick ends with the queue empty.
C22_EventsOnce ==
  [][/\ eventQueue' # eventQueue => Pushes \/ Drains
     /\ Pushes => pc \in {"ready", "idle", "crashed"} /\ calls' = calls
     /\ Drains =>
          /\ context # NoArg
          /\ "render" \in {calls[n].fn : n \in DOMAIN calls}
          /\ calls' = IF Defines(Head(eventQueue))
                        THEN Append(calls, Entry(Head(eventQueue), NoArg,
                                                 context, cursor))
                        ELSE calls
     /\ SkipsSignal => eventQueue' = eventQueue
     /\ pc' = "request" => eventQueue' = << >>]_vars

\* C22 witness: a tick found a pointerMove the program has no handler for and
\* a pointerDown it handles; it has called pointerDown once and the queue is
\* empty.
C22_Witness ==
  /\ pc = "request"
  /\ ~Defines("pointerMove")
  /\ tickQueue = <<"pointerMove", "pointerDown">>
  /\ [i \in DOMAIN HandlerCalls |-> HandlerCalls[i].fn] = <<"pointerDown">>
  /\ eventQueue = << >>


\* C23: a listener's step, wherever it falls between two callbacks, changes
\* the pointer's x, y and pressed and appends to the queue, and nothing else:
\* not the buffer, the frame, the time, the sample, the stored record, the
\* grid, the pointer's previous-state shadow, the pending request or the
\* position of the loop, and no phase or handler is called.
C23_ListenersOnlyPoint ==
  [][Pushes =>
       /\ pc \in {"ready", "idle", "crashed"}
       /\ pointer'.px = pointer.px
       /\ pointer'.py = pointer.py
       /\ pointer'.ppressed = pointer.ppressed
       /\ UNCHANGED <<buffer, state, stored, timeSample, timeOffset, interval,
                      now, calls, pc, raf, booted, context, cursor, cols, rows,
                      metrics, rect, lastCursor>>]_vars

\* C23 witness: after a first tick a pointerdown came in: the pointer is
\* pressed, its shadow is not, the event waits in the queue and the frame is
\* still 1.
C23_Witness ==
  /\ pc = "idle"
  /\ state.frame = 1
  /\ eventQueue = <<"pointerDown">>
  /\ pointer.pressed
  /\ ~pointer.ppressed


\* boot() has run and no program call has thrown.
Running == pc \notin {"start", "failed", "ready", "crashed"}

\* The clock can still reach a time at which the throttle accepts.
ClockAdvances ==
  \E u \in host.times : u >= now /\ u - timeSample >= interval

\* C24: in looping mode one request is pending whenever loop is not running
\* and none while a tick runs, so never more than one; a request is added
\* only by boot and by the last step of a tick (a skipped signal replaces the
\* one it used), one at a time; and while the clock can still reach the next
\* interval the frame that follows is eventually accepted.
C24_OneRequest ==
  /\ [](Running => raf = IF pc = "idle" THEN 1 ELSE 0)
  /\ [][/\ raf' > raf => raf' = raf + 1 /\ pc \in {"ready", "request"}
        /\ SkipsSignal => raf' = raf
        /\ Accepts => raf = 1 /\ raf' = 0]_vars
  /\ \A f \in 0..MaxTime :
       (Running /\ state.frame = f /\ ClockAdvances) ~> (state.frame = f + 1)

\* C24 witness: two ticks were accepted, the signal after them came before
\* the next interval, and one request is pending.
C24_Witness ==
  /\ pc = "idle"
  /\ ~settings.once
  /\ state.frame = 2
  /\ now > timeSample
  /\ raf = 1


\* C25: in single-shot mode boot's request is the only one ever made; once a
\* signal has been handled, accepted or skipped, no request is pending and no
\* other signal is handled: the clock, the frame and the time stay as that
\* call left them, so the frame advances by 1 at most, and the renderer runs
\* once at most, in the only accepted tick.
C25_SingleShot ==
  [][settings.once =>
       /\ raf' <= 1
       /\ raf' > raf => pc = "ready"
       /\ gaps # "none" =>
            /\ raf = 0 /\ raf' = 0
            /\ ~Accepts /\ ~SkipsSignal
            /\ now' = now /\ gaps' = gaps /\ state' = state
       /\ Accepted' \in {0, 1}
       /\ (pc = "render" /\ pc' # "render") =>
            /\ Accepted = 1
            /\ "render" \notin {calls[n].fn : n \in DOMAIN calls}
            /\ "render" \in {calls'[n].fn : n \in DOMAIN calls'}]_vars

\* C25 witness: in single-shot mode the only signal was accepted: one frame,
\* one render, and no request is left.
C25_Witness ==
  /\ pc = "idle"
  /\ settings.once
  /\ Accepted = 1
  /\ gaps # "none"
  /\ raf = 0


\* A step in which a call of the program throws: a helper raised inside pre,
\* post or a handler, or main was called and returned nothing.
ThrowsIn ==
  \/ buffer'.threw /\ ~buffer.threw
  \/ pc = "main" /\ calls' # calls /\ outs' = outs

\* The names of the calls made so far in the tick that threw.
CrashNames == {calls'[n].fn : n \in DOMAIN calls'}

\* C26: when pre, main or post throws, loop is left at once: the call that
\* threw is the last of the tick (after pre no main, after main no further
\* cell and no post, and in every case no render and no handler), nothing is
\* requested, the frame and time the tick set and the record it stored stay,
\* the cells main had already merged stay, and nothing of the loop runs again.
C26_ThrowEndsTick ==
  [][/\ ThrowsIn =>
          /\ pc' = "crashed"
          /\ Len(calls') = Len(calls) + 1
          /\ calls'[Len(calls')].fn = (IF pc = "drain" THEN Head(eventQueue) ELSE pc)
          /\ pc = "pre" => CrashNames \subseteq {"resize", "pre"}
          /\ pc = "main" => CrashNames \subseteq {"resize", "pre", "main"}
          /\ pc = "post" => CrashNames \subseteq {"resize", "pre", "main", "post"}
          /\ pc = "main" => buffer' = buffer
          /\ raf = 0 /\ raf' = 0
          /\ state' = state /\ stored' = stored
          /\ state.frame = context.frame + 1
          /\ state.time = now + timeOffset
          /\ stored = StorageStore(state)
     /\ pc = "crashed" =>
          UNCHANGED <<pc, calls, buffer, state, stored, raf, now, timeSample,
                      context, cursor>>]_vars

\* C26 witness: main threw at the second cell of the first tick of a looping
\* run: the first cell holds what main returned for it, the frame is 1 and
\* stored, post and the renderer were not called, no request is pending.
C26_Witness ==
  /\ pc = "crashed"
  /\ ~settings.once
  /\ Defines("post")
  /\ CallNames[Len(calls)] = "main"
  /\ calls[Len(calls)].coord.index = 1
  /\ buffer.cells[1].char = "X"
  /\ state.frame = 1
  /\ stored.frame = 1
  /\ raf = 0


\* C27 as claimed: after any calls of the helpers on a resized buffer no two
\* slots hold the same cell object, and a merge changes no slot but the one
\* it addresses.
C27_NoSharedCells ==
  [][/\ \A i, j \in DOMAIN buffer'.ids :
          (i # j /\ buffer'.ids[i] # 0) => buffer'.ids[i] # buffer'.ids[j]
     /\ HelperDid("merge") =>
          \A k \in DOMAIN buffer.cells :
            k # SlotOf(helper'.call.x, helper'.call.y)
              => buffer'.cells[k] = buffer.cells[k]]_vars


\* The frame a run starts from: the restored one, or 0.
InitialFrame == IF settings.restoreState THEN SavedRecord.frame ELSE 0

\* C28: the context of the k-th accepted tick carries the frame and the time
\* the state had when the tick began: frame = initial frame + k - 1 and, from
\* the second tick on, the frame and time the previous accepted tick set and
\* stored (on the first tick the initial time offset), one tick behind the
\* state the tick then sets; it stays the same for the whole tick and every
\* call of the tick (pre, main, post, the renderer, the handlers) is given it.
C28_ContextLags ==
  [][/\ Accepts =>
          /\ context'.frame = state.frame
          /\ context'.time = state.time
          /\ context'.frame = InitialFrame + (Accepted + 1) - 1
          /\ state'.frame = context'.frame + 1
          /\ Accepted = 0 => context'.frame = InitialFrame
                             /\ context'.time = timeOffset
          /\ Accepted > 0 => context'.frame = stored.frame
                             /\ context'.time = stored.time
     /\ (context # NoArg /\ context' # NoArg) => context' = context
     /\ context' # NoArg =>
          /\ context'.frame = state'.frame - 1
          /\ \A n \in DOMAIN calls' : calls'[n].context = context']_vars

\* C28 witness: at the end of the second tick of a restored run (initial
\* frame 7, initial time 3) pre, main, post, the renderer and a handler have
\* all been given the context with frame 8 and the first tick's time, while
\* the state is at frame 9.
C28_Witness ==
  /\ pc = "request"
  /\ settings.restoreState
  /\ Accepted = 2
  /\ context.frame = 8
  /\ context.time > 3
  /\ state.frame = 9
  /\ state.time > context.time
  /\ {"pre", "main", "post", "render", "pointerDown"}
       \subseteq {calls[n].fn : n \in DOMAIN calls}

=============================================================================
